---- MODULE Spec2Model ----
(***************************************************************************)
(* The statediff service of go-ethereum (statediff/service.go): the Loop   *)
(* goroutine that turns StateChangeEvents into payloads, the Subscriptions *)
(* map guarded by the service mutex, the subscribers flag, and the callers *)
(* of Subscribe, Unsubscribe and Stop that run concurrently with the Loop. *)
(*                                                                         *)
(* A step of the model is one atomic step of the program: a channel        *)
(* operation, an atomic compare-and-swap, or a critical section of the     *)
(* service mutex in which no channel of another goroutine is touched.      *)
(* The range loops of send and close are one step per map entry, because   *)
(* the subscribers' goroutines receive from their channels meanwhile.      *)
(***************************************************************************)
EXTENDS Integers, Sequences, FiniteSets, TLC

\* ---- bounds of the model ------------------------------------------------
MaxEvents == 2        \* StateChangeEvents the chain produces
MaxChans  == 2        \* Subscribe calls made (each brings its own channels)
MaxCap    == 1        \* buffer of the PayloadChan the callers make

\* ---- program constants --------------------------------------------------
stateChangeEventChanSize == 20000

Ids      == {"a", "b"}                 \* rpc.ID values the callers use
Procs    == {1}                        \* goroutines inside Subscribe at a time
Chans    == 1..MaxChans
Outcomes == {"ok", "assembly", "encoding"}
NoEvent  == 0
NoCall   == [id |-> "", ch |-> 0]
NoOp     == [id |-> "", before |-> 0, had |-> FALSE, undone |-> FALSE]
NoReg    == [from |-> 0, how |-> "none"]

VARIABLES
    pc,            \* where the Loop goroutine is
    cur,           \* the stateChangeEvent the Loop is processing
    queue,         \* stateChangeEventCh, the buffered channel of events
    nextBlock,     \* number of the next block of the chain
    errCh,         \* stateChangeEventsSub.Err(): "none", "ready", "taken"
    upstream,      \* "none", "active", "unsubscribed": the chain subscription
    quitClosed,    \* sds.QuitChan has been closed
    panicked,      \* the process has panicked
    mutex,         \* sds.Mutex: "free", "loop", or "caller"
    Subscriptions, \* sds.Subscriptions: id -> channel pair
    subscribers,   \* sds.subscribers
    todo,          \* entries the running range loop has still to visit
    pending,       \* Subscribe calls between their CAS and their Lock
    nextChan,      \* channel pairs the callers have made so far, plus one
    chans,         \* the subscribers' channels
    produced,      \* history: payloads whose send() has taken the mutex
    reg,           \* history: each registration's start and how it ended
    dry,           \* history: the channels that were empty when send() began
    atStart,       \* history: the map as the running send() or close() found it
    lastSub        \* history: the Subscribe that last changed the map, while
                   \* nothing but the Unsubscribe of its id has changed it since

vars == <<pc, cur, queue, nextBlock, errCh, upstream, quitClosed, panicked,
          mutex, Subscriptions, subscribers, todo, pending, nextChan, chans,
          produced, reg, dry, atStart, lastSub>>

loopVars   == <<pc, cur, queue, nextBlock, errCh, upstream>>
callerVars == <<pending, nextChan>>
histVars   == <<produced, reg, dry, atStart, lastSub>>

\* ---- channels -----------------------------------------------------------
\* A subscriber's pair of channels.  sent/rcvd are the payloads put on
\* PayloadChan and the number its receiver has taken; the buffer holds the
\* rest.  qtried counts the sends attempted on QuitChan and qsent the values
\* put on it; whether QuitChan can take a value at the moment of a send is up
\* to the subscriber's goroutine.
NewChan(pcap) ==
    [pcap |-> pcap, sent |-> <<>>, rcvd |-> 0, qsent |-> 0, qtried |-> 0]

Buffered(c)     == Len(chans[c].sent) - chans[c].rcvd
CanSend(c)      == Buffered(c) < chans[c].pcap

EmptyMap == [k \in {} |-> 0]
Registered(c) == \E id \in DOMAIN Subscriptions : Subscriptions[id] = c

\* delete(m, id)
Delete(m, id) == [k \in (DOMAIN m) \ {id} |-> m[k]]
\* An assignment that leaves the entry an id already has.
PutKeepOld(m, id, c) ==
    IF id \in DOMAIN m THEN m
    ELSE [k \in (DOMAIN m) \cup {id} |-> IF k = id THEN c ELSE m[k]]

\* m[id] = c
Put(m, id, c) == [k \in (DOMAIN m) \cup {id} |-> IF k = id THEN c ELSE m[k]]

\* atomic.CompareAndSwapInt32(&sds.subscribers, old, new)
CompareAndSwap(v, old, new) == IF v = old THEN new ELSE v

Init ==
    /\ pc = "new"
    /\ cur = NoEvent
    /\ queue = <<>>
    /\ nextBlock = 1
    /\ errCh = "none"
    /\ upstream = "none"
    /\ quitClosed = FALSE
    /\ panicked = FALSE
    /\ mutex = "free"
    /\ Subscriptions = EmptyMap
    /\ subscribers = 0
    /\ todo = {}
    /\ pending = [p \in Procs |-> NoCall]
    /\ nextChan = 1
    /\ chans = [c \in Chans |-> NewChan(0)]
    /\ produced = <<>>
    /\ reg = [c \in Chans |-> NoReg]
    /\ dry = {}
    /\ atStart = EmptyMap
    /\ lastSub = NoOp

\* ---- history bookkeeping -------------------------------------------------
\* reg[c].from is the number of fan-outs begun before channel pair c was
\* registered; reg[c].how is "registered" from then on, and then what ended
\* the registration.
End(r, c, how) == [r EXCEPT ![c].how = how]

\* ---- the chain (blockChain.SubscribeStateChangeEvents) --------------------
\* The chain sends the next block's event on the channel Loop subscribed.
Produce ==
    /\ ~panicked
    /\ upstream = "active"
    /\ nextBlock <= MaxEvents
    /\ Len(queue) < stateChangeEventChanSize
    /\ queue' = Append(queue, nextBlock)
    /\ nextBlock' = nextBlock + 1
    /\ UNCHANGED <<pc, cur, errCh, upstream, quitClosed, panicked, mutex,
                   Subscriptions, subscribers, todo, chans>>
    /\ UNCHANGED callerVars /\ UNCHANGED histVars

\* The chain subscription fails: an error becomes ready on errCh.
UpstreamError ==
    /\ ~panicked
    /\ upstream = "active"
    /\ errCh = "none"
    /\ errCh' = "ready"
    /\ UNCHANGED <<pc, cur, queue, nextBlock, upstream, quitClosed, panicked,
                   mutex, Subscriptions, subscribers, todo, chans>>
    /\ UNCHANGED callerVars /\ UNCHANGED histVars

\* ---- Start and the Loop ---------------------------------------------------
\* Start: go sds.Loop(ch); Loop subscribes to the chain and reaches its select.
Start ==
    /\ ~panicked
    /\ pc = "new"
    /\ pc' = "select"
    /\ upstream' = "active"
    /\ UNCHANGED <<cur, queue, nextBlock, errCh, quitClosed, panicked, mutex,
                   Subscriptions, subscribers, todo, chans>>
    /\ UNCHANGED callerVars /\ UNCHANGED histVars

\* An error case that returns without close().
LoopRecvErrReturn ==
    /\ ~panicked
    /\ pc = "select"
    /\ errCh = "ready"
    /\ errCh' = "taken"
    /\ pc' = "stopped"
    /\ upstream' = "unsubscribed"
    /\ UNCHANGED <<cur, queue, nextBlock, quitClosed, panicked, mutex,
                   Subscriptions, subscribers, todo, chans>>
    /\ UNCHANGED callerVars /\ UNCHANGED histVars

\* case err := <-errCh: sds.close() and then return
LoopRecvErr ==
    /\ ~panicked
    /\ pc = "select"
    /\ errCh = "ready"
    /\ errCh' = "taken"
    /\ pc' = "close_lock"
    /\ UNCHANGED <<cur, queue, nextBlock, upstream, quitClosed, panicked, mutex,
                   Subscriptions, subscribers, todo, chans>>
    /\ UNCHANGED callerVars /\ UNCHANGED histVars

\* case <-sds.QuitChan (a receive from a closed channel is always ready)
LoopRecvQuit ==
    /\ ~panicked
    /\ pc = "select"
    /\ quitClosed
    /\ pc' = "close_lock"
    /\ UNCHANGED <<cur, queue, nextBlock, errCh, upstream, quitClosed, panicked,
                   mutex, Subscriptions, subscribers, todo, chans>>
    /\ UNCHANGED callerVars /\ UNCHANGED histVars

\* A Loop that shuts down on an event it cannot encode.
AfterProcessBreak(o) == IF o = "ok" THEN "send_lock" ELSE "close_lock"

\* A Loop that processes state diffs only while the flag says there are
\* subscribers.
AfterProcessIfSubscribers(o) ==
    IF o = "ok" /\ subscribers = 1 THEN "send_lock" ELSE "select"

\* Where processStateChanges leaves the Loop: a failure of rlp.EncodeToBytes,
\* on an account ("assembly") or on the state diff ("encoding"), returns the
\* error before send(), and the Loop logs it and goes round again.
AfterProcess(o) == IF o = "ok" THEN "send_lock" ELSE "select"

\* case stateChangeEvent := <-stateChangeEventCh, and
\* processStateChanges(stateChangeEvent) up to its call of send; o is what
\* the encoding of this event's accounts and state diff comes to.
LoopRecvEvent(o) ==
    /\ ~panicked
    /\ pc = "select"
    /\ queue # <<>>
    /\ queue' = Tail(queue)
    /\ pc' = AfterProcess(o)
    /\ cur' = IF o = "ok" THEN Head(queue) ELSE NoEvent
    /\ UNCHANGED <<nextBlock, errCh, upstream, quitClosed, panicked,
                   mutex, Subscriptions, subscribers, todo, chans>>
    /\ UNCHANGED callerVars /\ UNCHANGED histVars

\* ---- send ------------------------------------------------------------------
\* sds.Lock() at the head of send(payload); the range loop starts.
SendLock ==
    /\ ~panicked
    /\ pc = "send_lock"
    /\ mutex = "free"
    /\ mutex' = "loop"
    /\ todo' = DOMAIN Subscriptions
    /\ pc' = "send_iter"
    /\ produced' = Append(produced, cur)
    /\ dry' = {c \in Chans : Registered(c) /\ Buffered(c) = 0
                                            /\ chans[c].pcap > 0}
    /\ atStart' = Subscriptions
    /\ UNCHANGED <<cur, queue, nextBlock, errCh, upstream, quitClosed, panicked,
                   Subscriptions, subscribers, chans, reg, lastSub>>
    /\ UNCHANGED callerVars

\* A send without a default case: it is taken when the channel can take the
\* value, and waits until then.
SelectBlocking(canTake) == canTake

\* select { case ch <- v: ... default: ... }: whether the statement can be
\* executed now, canTake being whether ch can take the value.  With its
\* default case it always can.
SelectDefault(canTake) == TRUE

\* An attempt that puts the signal on QuitChan twice.
QuitAttemptTwice(ch, ready) ==
    [ch EXCEPT !.qtried = @ + 2, !.qsent = IF ready THEN @ + 2 ELSE @]

\* select { case sub.QuitChan <- true: ... default: ... }: the channel pair
\* after the attempt; ready is whether QuitChan can take the value now.
QuitAttempt(ch, ready) ==
    [ch EXCEPT !.qtried = @ + 1, !.qsent = IF ready THEN @ + 1 ELSE @]

\* A send that loses the payload it reports as sent.
SendAttemptLossy(ch, p, ready) ==
    IF Len(ch.sent) - ch.rcvd < ch.pcap THEN ch ELSE QuitAttempt(ch, ready)

\* select { case sub.PayloadChan <- payload: ... default: ... }: the channel
\* pair after the attempt, for payload p.
SendAttempt(ch, p, ready) ==
    IF Len(ch.sent) - ch.rcvd < ch.pcap
    THEN [ch EXCEPT !.sent = Append(@, p)]
    ELSE QuitAttempt(ch, ready)

\* A send that never removes an entry.
SendKeepAll(m, id, accepted) == m

\* The map after the attempt on entry id: the entry is deleted when the
\* payload could not be sent.
SendKeep(m, id, accepted) == IF accepted THEN m ELSE Delete(m, id)

\* One iteration of the range loop of send, on entry id.
SendVisit(id, ready) ==
    /\ ~panicked
    /\ pc = "send_iter"
    /\ id \in todo
    /\ LET c == Subscriptions[id] IN
         /\ ready => ~CanSend(c)
         /\ SelectDefault(CanSend(c))
         /\ ~CanSend(c) => SelectDefault(ready)
         /\ chans' = [chans EXCEPT ![c] = SendAttempt(chans[c], cur, ready)]
         /\ Subscriptions' = SendKeep(Subscriptions, id, CanSend(c))
         /\ reg' = IF CanSend(c) THEN reg
                   ELSE End(reg, c, IF c \in dry THEN "evicted dry"
                                                 ELSE "evicted")
         /\ lastSub' = IF CanSend(c) THEN lastSub ELSE NoOp
    /\ todo' = todo \ {id}
    /\ UNCHANGED <<pc, cur, queue, nextBlock, errCh, upstream, quitClosed,
                   panicked, mutex, subscribers, produced, dry, atStart>>
    /\ UNCHANGED callerVars

\* The flag after the range loop: if len(sds.Subscriptions) == 0 { CAS(1, 0) }
FlagAfterRemoval(m, flag) ==
    IF DOMAIN m = {} THEN CompareAndSwap(flag, 1, 0) ELSE flag

\* The end of send: the flag is updated, the mutex released, and the Loop is
\* back at its select.
SendDone ==
    /\ ~panicked
    /\ pc = "send_iter"
    /\ todo = {}
    /\ subscribers' = FlagAfterRemoval(Subscriptions, subscribers)
    /\ mutex' = "free"
    /\ pc' = "select"
    /\ cur' = NoEvent
    /\ dry' = {}
    /\ atStart' = EmptyMap
    /\ UNCHANGED <<queue, nextBlock, errCh, upstream, quitClosed, panicked,
                   Subscriptions, todo, chans, produced, reg, lastSub>>
    /\ UNCHANGED callerVars

\* ---- close -----------------------------------------------------------------
\* sds.Lock() at the head of close(); the range loop starts.
CloseLock ==
    /\ ~panicked
    /\ pc = "close_lock"
    /\ mutex = "free"
    /\ mutex' = "loop"
    /\ todo' = DOMAIN Subscriptions
    /\ pc' = "close_iter"
    /\ atStart' = Subscriptions
    /\ UNCHANGED <<cur, queue, nextBlock, errCh, upstream, quitClosed, panicked,
                   Subscriptions, subscribers, chans, produced, reg, dry,
                   lastSub>>
    /\ UNCHANGED callerVars

\* A close that removes only the entries whose signal was delivered.
CloseRemoveDelivered(m, id, ready) == IF ready THEN Delete(m, id) ELSE m

\* delete(sds.Subscriptions, id) in close: whatever became of the signal.
CloseRemove(m, id, ready) == Delete(m, id)

\* One iteration of the range loop of close, on entry id.
CloseVisit(id, ready) ==
    /\ ~panicked
    /\ pc = "close_iter"
    /\ id \in todo
    /\ SelectDefault(ready)
    /\ LET c == Subscriptions[id] IN
         /\ chans' = [chans EXCEPT ![c] = QuitAttempt(chans[c], ready)]
         /\ reg' = End(reg, c, "closed")
    /\ lastSub' = NoOp
    /\ Subscriptions' = CloseRemove(Subscriptions, id, ready)
    /\ todo' = todo \ {id}
    /\ UNCHANGED <<pc, cur, queue, nextBlock, errCh, upstream, quitClosed,
                   panicked, mutex, subscribers, produced, dry, atStart>>
    /\ UNCHANGED callerVars

\* A Loop that goes round again after close().
AfterCloseContinue == "select"

\* Where the Loop is after close() has returned: it returns, and the deferred
\* stateChangeEventsSub.Unsubscribe() runs.
AfterClose == "stopped"

CloseDone ==
    /\ ~panicked
    /\ pc = "close_iter"
    /\ todo = {}
    /\ mutex' = "free"
    /\ pc' = AfterClose
    /\ upstream' = "unsubscribed"
    /\ atStart' = EmptyMap
    /\ UNCHANGED <<cur, queue, nextBlock, errCh, quitClosed, panicked,
                   Subscriptions, subscribers, todo, chans, produced, reg, dry,
                   lastSub>>
    /\ UNCHANGED callerVars

\* ---- Subscribe ---------------------------------------------------------------
\* The caller has made its two channels (nextChan names them) and calls
\* Subscribe(id, sub, quitChan): the compare-and-swap comes before the Lock.
SubscribeCAS(p, id) ==
    /\ ~panicked
    /\ pending[p] = NoCall
    /\ nextChan <= MaxChans
    /\ chans' = [chans EXCEPT ![nextChan] = NewChan(MaxCap)]
    /\ pending' = [pending EXCEPT ![p] = [id |-> id, ch |-> nextChan]]
    /\ nextChan' = nextChan + 1
    /\ subscribers' = CompareAndSwap(subscribers, 0, 1)
    /\ UNCHANGED <<Subscriptions, mutex, todo, quitClosed, panicked>>
    /\ UNCHANGED loopVars /\ UNCHANGED histVars

\* sds.Lock(); sds.Subscriptions[id] = Subscription{...}; sds.Unlock()
SubscribeInsert(p) ==
    /\ ~panicked
    /\ pending[p] # NoCall
    /\ mutex = "free"
    /\ LET id == pending[p].id
           c  == pending[p].ch
           r  == IF id \in DOMAIN Subscriptions
                 THEN End(reg, Subscriptions[id], "overwritten") ELSE reg
       IN /\ Subscriptions' = Put(Subscriptions, id, c)
          /\ reg' = [r EXCEPT ![c] = [from |-> Len(produced),
                                      how |-> "registered"]]
          /\ lastSub' = [id |-> id, undone |-> FALSE,
                          before |-> Cardinality(DOMAIN Subscriptions),
                          had |-> id \in DOMAIN Subscriptions]
    /\ pending' = [pending EXCEPT ![p] = NoCall]
    /\ UNCHANGED <<mutex, subscribers, todo, quitClosed, panicked, nextChan,
                   chans, produced, dry, atStart>>
    /\ UNCHANGED loopVars

\* ---- Unsubscribe -------------------------------------------------------------
\* An Unsubscribe that reports success and leaves the entry in the map.
UnsubscribeMapKeep(m, id) == m

\* The mutex when Unsubscribe returns: the return of the error comes before
\* the Unlock, which only the other path reaches.
UnsubscribeMutex(ok) == IF ok THEN "free" ELSE "caller"

\* The map when Unsubscribe returns.
UnsubscribeMap(m, id) == IF id \in DOMAIN m THEN Delete(m, id) ELSE m

\* Unsubscribe(id), from its Lock to its return.
Unsubscribe(id) ==
    /\ ~panicked
    /\ mutex = "free"
    /\ LET ok == id \in DOMAIN Subscriptions IN
         /\ Subscriptions' = UnsubscribeMap(Subscriptions, id)
         /\ subscribers' = IF ok
                           THEN FlagAfterRemoval(Subscriptions', subscribers)
                           ELSE subscribers
         /\ mutex' = UnsubscribeMutex(ok)
         /\ reg' = IF ok THEN End(reg, Subscriptions[id], "unsubscribed")
                   ELSE reg
         /\ lastSub' = IF ~ok THEN lastSub
                       ELSE IF lastSub.id = id /\ ~lastSub.undone
                            THEN [lastSub EXCEPT !.undone = TRUE]
                            ELSE NoOp
    /\ UNCHANGED <<todo, quitClosed, panicked, chans, produced, dry, atStart>>
    /\ UNCHANGED loopVars /\ UNCHANGED callerVars

\* ---- Stop --------------------------------------------------------------------
\* close(sds.QuitChan): closing a closed channel panics.
StopPanics(closed) == closed

\* Stop(): the first call closes QuitChan; the panic of a later call ends the
\* process, and no goroutine of it takes another step.
Stop ==
    /\ ~panicked
    /\ panicked' = StopPanics(quitClosed)
    /\ quitClosed' = TRUE
    /\ UNCHANGED <<mutex, Subscriptions, subscribers, todo, chans>>
    /\ UNCHANGED loopVars /\ UNCHANGED callerVars /\ UNCHANGED histVars

\* ---- the subscribers' goroutines ---------------------------------------------
\* The owner of channel pair c receives a payload from its PayloadChan.  What
\* it does with a channel the service holds no more changes nothing the
\* service reads, and is left out.
Receive(c) ==
    /\ ~panicked
    /\ Registered(c)
    /\ Buffered(c) > 0
    /\ chans' = [chans EXCEPT ![c].rcvd = @ + 1]
    /\ UNCHANGED <<mutex, Subscriptions, subscribers, todo, quitClosed, panicked>>
    /\ UNCHANGED loopVars /\ UNCHANGED callerVars /\ UNCHANGED histVars

Next ==
    \/ Start
    \/ Produce
    \/ UpstreamError
    \/ \E o \in Outcomes : LoopRecvEvent(o)
    \/ LoopRecvErr
    \/ LoopRecvQuit
    \/ SendLock
    \/ \E id \in Ids, ready \in BOOLEAN : SendVisit(id, ready)
    \/ SendDone
    \/ CloseLock
    \/ \E id \in Ids, ready \in BOOLEAN : CloseVisit(id, ready)
    \/ CloseDone
    \/ \E p \in Procs, id \in Ids : SubscribeCAS(p, id)
    \/ \E p \in Procs : SubscribeInsert(p)
    \/ \E id \in Ids : Unsubscribe(id)
    \/ Stop
    \/ \E c \in Chans : Receive(c)

Spec == Init /\ [][Next]_vars

\* Under the fairness the Go scheduler gives the Loop goroutine: a step of
\* the Loop that stays possible is taken.
LoopStep ==
    \/ Start
    \/ \E o \in Outcomes : LoopRecvEvent(o)
    \/ LoopRecvErr
    \/ LoopRecvQuit
    \/ SendLock
    \/ \E id \in Ids, ready \in BOOLEAN : SendVisit(id, ready)
    \/ SendDone
    \/ CloseLock
    \/ \E id \in Ids, ready \in BOOLEAN : CloseVisit(id, ready)
    \/ CloseDone

FairSpec == Spec /\ WF_vars(LoopStep)

\* ---- what the claims speak of ------------------------------------------------
\* The Loop is not inside the range loop of send or close.
Quiet == mutex # "loop"

\* Channel pairs that a Subscribe call has brought.
Made == 1..(nextChan - 1)

\* The fan-outs begun since channel pair c was registered.
Since(c) == SubSeq(produced, reg[c].from + 1, Len(produced))

\* The same, without the running fan-out if it has not come to c yet.
Due(c) ==
    IF pc = "send_iter" /\ \E id \in todo : Subscriptions[id] = c
    THEN SubSeq(produced, reg[c].from + 1, Len(produced) - 1)
    ELSE Since(c)

Increasing(q) == \A i, j \in 1..Len(q) : i < j => q[i] < q[j]

\* C1: backpressure isolation.  Outside a fan-out, a registered subscriber
\* whose payload channel was never received from has seen no more fan-outs
\* than its channel holds (after more it is gone from Subscriptions); no
\* subscriber whose channel was empty when a fan-out began is evicted by it;
\* and a subscriber still registered has been sent every payload produced
\* since its Subscribe, in production order.
C1_BackpressureIsolation ==
    \A c \in Chans :
        /\ (Quiet /\ Registered(c) /\ chans[c].rcvd = 0)
              => Len(produced) - reg[c].from <= chans[c].pcap
        /\ reg[c].how # "evicted dry"
        /\ (Quiet /\ Registered(c)) => chans[c].sent = Since(c)

\* C1 witness: A, never received from, was evicted on overflow with its
\* cancellation delivered, and B, registered from the start and drained in
\* time, holds every payload produced.
C1_Witness ==
    /\ pc = "select"
    /\ \E a, b \in Made :
         /\ a # b
         /\ reg[a].how = "evicted" /\ chans[a].rcvd = 0
         /\ Len(chans[a].sent) = chans[a].pcap /\ chans[a].qsent = 1
         /\ Registered(b) /\ reg[b].from = 0
         /\ Len(produced) > chans[b].pcap
         /\ chans[b].sent = produced

\* C2: producer liveness.  Under fair scheduling of the Loop, an event on its
\* way into send() gets through it and the Loop is back at its select (unless
\* the process has died).
C2_ProducerLiveness ==
    (pc = "send_lock") ~> (pc = "select" \/ panicked)

\* C3: Unsubscribe of an absent id leaves Subscriptions and the subscribers
\* flag as they were and the mutex free.
C3_UnsubscribeAbsentLeavesState ==
    [][\A id \in Ids :
          (id \notin DOMAIN Subscriptions /\ Unsubscribe(id))
             => /\ Subscriptions' = Subscriptions
                /\ subscribers' = subscribers
                /\ mutex' = "free"]_vars

\* C4: per-subscriber FIFO.  Events are fanned out in the order they arrived
\* in (block numbers rise along the queue and along the fan-outs, and what is
\* queued is newer than what was fanned out), and the payloads put on a
\* registered subscriber's channel are exactly the fan-outs since its
\* Subscribe, in that order, each once.
C4_PerSubscriberFIFO ==
    /\ Increasing(produced \o queue)
    /\ cur # NoEvent => /\ \A i \in 1..Len(queue) : cur < queue[i]
                        /\ \A i \in 1..Len(produced) : produced[i] <= cur
    /\ \A c \in Chans : Registered(c) => chans[c].sent = Due(c)

\* C4 witness: a subscriber registered before the first event holds the
\* payloads of all the blocks, in order, and there were at least two.
C4_Witness ==
    /\ pc = "select"
    /\ \E c \in Made :
         /\ Registered(c) /\ reg[c].from = 0
         /\ Len(produced) >= 2
         /\ chans[c].sent = [i \in 1..MaxEvents |-> i]

\* C5: after Unsubscribe(id) has returned success, nothing more is sent on
\* the channels that were registered under id, payload or cancellation (the
\* callers make new channels for each Subscribe).
C5_NothingAfterUnsubscribe ==
    [][\A c \in Chans :
          reg[c].how = "unsubscribed"
             => /\ chans'[c] = chans[c]
                /\ reg'[c].how = "unsubscribed"]_vars

\* C5 witness: a subscriber that subscribed before the first fan-out and
\* unsubscribed; payloads have been fanned out since its Subscribe, and its
\* channels hold none of them and no cancellation.
C5_Witness ==
    \E c \in Made :
        /\ reg[c].how = "unsubscribed" /\ reg[c].from = 0
        /\ produced # <<>>
        /\ chans[c].sent = <<>> /\ chans[c].qsent = 0

Closing == {"close_lock", "close_iter", "stopped"}

\* C6, as claimed: whenever the Loop is Stopped, Subscriptions is empty.
C6_StoppedRegistryEmpty ==
    pc = "stopped" => DOMAIN Subscriptions = {}

\* C6, amended: Subscriptions is empty when close() returns and the Loop
\* becomes Stopped, and from then on only the callers' Subscribe and
\* Unsubscribe change it (a Subscribe after the shutdown adds its entry).
C6_EmptyWhenCloseReturns ==
    [][/\ (pc # "stopped" /\ pc' = "stopped") => DOMAIN Subscriptions' = {}
       /\ (pc = "stopped" /\ Subscriptions' # Subscriptions)
             => \/ \E p \in Procs : SubscribeInsert(p)
                \/ \E id \in Ids : Unsubscribe(id)]_vars

\* C6 witness: the Loop has Stopped, close() has removed a subscriber, and
\* Subscriptions is empty.
C6_Witness ==
    /\ pc = "stopped"
    /\ DOMAIN Subscriptions = {}
    /\ \E c \in Made : reg[c].how = "closed"

\* A step that takes no event from the queue and puts no payload on a channel.
NothingProcessed ==
    /\ Len(queue') >= Len(queue)
    /\ \A c \in Chans : chans'[c].sent = chans[c].sent

\* C7, as claimed: once QuitChan is closed or the upstream error is ready,
\* no event leaves the queue and no payload is put on a channel.
C7_NothingAfterSignal ==
    [][(quitClosed \/ errCh = "ready") => NothingProcessed]_vars

\* C7, amended: once the Loop has taken the stop or the error case of its
\* select, it stays on its way out, no event leaves the queue and no payload
\* is put on a channel.
C7_NothingAfterLoopTakesSignal ==
    [][(pc \in Closing) => (pc' \in Closing /\ NothingProcessed)]_vars

\* C7 witness: the Loop has Stopped with events still queued.
C7_Witness ==
    pc = "stopped" /\ queue # <<>>

\* C8: Stop() called again does not crash the service.
C8_StopTwiceSafe ==
    ~panicked

Running == {"select", "send_lock", "send_iter"}

\* C9: continuity under partial failure.  The Loop leaves Running only by
\* the error or the stop case of its select; an event that cannot be encoded
\* puts nothing on any channel, leaves Subscriptions as it was and the Loop
\* at its select with the rest of the queue; and at its select, with an event
\* queued, the Loop can take it and go on to send it.
C9_ContinuityUnderPartialFailure ==
    /\ [][/\ (pc \in Running /\ pc' \notin Running)
                => (LoopRecvErr \/ LoopRecvQuit \/ panicked')
          /\ \A o \in Outcomes \ {"ok"} :
                LoopRecvEvent(o) => /\ chans' = chans
                                    /\ Subscriptions' = Subscriptions
                                    /\ queue' = Tail(queue)
                                    /\ pc' = "select"]_vars
    /\ [](pc = "select" /\ queue # <<>> /\ ~panicked
             => ENABLED LoopRecvEvent("ok"))

\* C9 witness: block 1 could not be encoded, and block 2 after it was fanned
\* out to a subscriber registered before both.
C9_Witness ==
    /\ produced = <<2>>
    /\ \E c \in Made : reg[c].from = 0 /\ chans[c].sent = <<2>>

\* C10, as claimed: Subscribe(id) and then at once Unsubscribe(id) leave as
\* many entries as there were before the pair.
C10_PairKeepsCount ==
    lastSub.undone => Cardinality(DOMAIN Subscriptions) = lastSub.before

\* C10, amended: they do when id was not registered before the pair; when
\* it was, Subscribe overwrote its entry and the pair leaves one entry fewer.
C10_PairKeepsCountOfNewId ==
    lastSub.undone =>
        Cardinality(DOMAIN Subscriptions)
            = IF lastSub.had THEN lastSub.before - 1 ELSE lastSub.before

\* C10 witness: the pair has run for an id that was not registered, in a map
\* that held another entry.
C10_Witness ==
    lastSub.undone /\ ~lastSub.had /\ lastSub.before = 1

\* C11: at most one entry per id.  Subscribe leaves the ids that were in
\* Subscriptions and its own, each other entry as it was, and under its own
\* id the channels of this call, whether or not the id had an entry; and no
\* payload is put on the channels of an entry that was overwritten.
C11_OneEntryPerId ==
    [][/\ \A p \in Procs :
            SubscribeInsert(p) =>
               LET id == pending[p].id IN
                 /\ DOMAIN Subscriptions' = DOMAIN Subscriptions \cup {id}
                 /\ Subscriptions'[id] = pending[p].ch
                 /\ \A k \in DOMAIN Subscriptions \ {id} :
                       Subscriptions'[k] = Subscriptions[k]
       /\ \A c \in Chans :
            reg'[c].how = "overwritten" => chans'[c].sent = chans[c].sent]_vars

\* C11 witness: Subscribe was called twice with one id before the first
\* fan-out; the map holds one entry, the second call's channel has every
\* payload and the first call's none.
C11_Witness ==
    \E c1, c2 \in Made :
        /\ reg[c1].how = "overwritten" /\ chans[c1].sent = <<>>
        /\ Cardinality(DOMAIN Subscriptions) = 1
        /\ \E id \in DOMAIN Subscriptions : Subscriptions[id] = c2
        /\ produced # <<>> /\ chans[c2].sent = produced

\* No Subscribe, Unsubscribe, send or close is in progress.
Idle ==
    /\ mutex = "free"
    /\ pc \in {"new", "select", "stopped"}
    /\ \A p \in Procs : pending[p] = NoCall

\* C12: the flag invariant.  While no registry operation is in progress the
\* subscribers flag is 1 exactly when Subscriptions is not empty.
C12_FlagInvariant ==
    Idle => (subscribers = 1 <=> DOMAIN Subscriptions # {})

\* The payload of the running send is the last one put on channel pair c.
Took(c) ==
    /\ chans[c].sent # <<>>
    /\ chans[c].sent[Len(chans[c].sent)] = cur

\* C13: the fan-out postcondition.  Inside send, the entries the range loop
\* has still to visit are there as send found them; of those it has visited,
\* the ones whose PayloadChan took the payload are left as they were, and
\* the others are gone, after one attempt on their QuitChan that put at most
\* one signal on it.  When the loop is done these are all the entries.
C13_FanOutPostcondition ==
    pc = "send_iter" =>
        /\ todo \subseteq DOMAIN atStart
        /\ DOMAIN Subscriptions
              = todo \cup {id \in DOMAIN atStart \ todo : Took(atStart[id])}
        /\ \A id \in DOMAIN Subscriptions : Subscriptions[id] = atStart[id]
        /\ \A id \in DOMAIN atStart \ DOMAIN Subscriptions :
              /\ chans[atStart[id]].qtried = 1
              /\ chans[atStart[id]].qsent <= 1

\* C13 witness: a send is about to return; of the two entries it found, one
\* took the payload and is left, and the other is gone with its signal
\* dropped.
C13_Witness ==
    /\ pc = "send_iter" /\ todo = {}
    /\ \E i, j \in DOMAIN atStart :
         /\ i \in DOMAIN Subscriptions /\ Took(atStart[i])
         /\ j \notin DOMAIN Subscriptions /\ chans[atStart[j]].qsent = 0

\* C14: the postcondition of close.  Inside close, Subscriptions holds the
\* entries the range loop has still to visit, and each entry it has visited
\* has had one attempt on its QuitChan, which put the signal on it if the
\* channel could take it and dropped it if not; when the loop is done
\* Subscriptions is empty.  On its way through close the Loop puts no payload
\* on any channel.
C14_CloseAllPostcondition ==
    /\ [](pc = "close_iter" =>
            /\ DOMAIN Subscriptions = todo
            /\ todo \subseteq DOMAIN atStart
            /\ \A id \in DOMAIN atStart \ todo :
                  /\ chans[atStart[id]].qtried = 1
                  /\ chans[atStart[id]].qsent <= 1)
    /\ [][/\ \A id \in Ids, ready \in BOOLEAN :
               CloseVisit(id, ready) =>
                  chans'[Subscriptions[id]].qsent
                     = chans[Subscriptions[id]].qsent + (IF ready THEN 1 ELSE 0)
          /\ pc \in {"close_lock", "close_iter"} =>
               \A c \in Chans : chans'[c].sent = chans[c].sent]_vars

\* C14 witness: close is about to return; it found two entries, the signal
\* was delivered to one and dropped for the other, and Subscriptions is
\* empty.
C14_Witness ==
    /\ pc = "close_iter" /\ todo = {}
    /\ DOMAIN Subscriptions = {}
    /\ \E i, j \in DOMAIN atStart :
         /\ chans[atStart[i]].qsent = 1
         /\ chans[atStart[j]].qsent = 0 /\ chans[atStart[j]].qtried = 1

Cancelled == {"evicted", "evicted dry", "closed"}

\* C15: cancel exactly once.  A registration has had one attempt on its
\* QuitChan if send evicted it or close removed it, and none otherwise, so
\* at most one signal is ever put on it; and of the registrations close()
\* found in Subscriptions, those it has visited have had their one attempt
\* and the rest are still to come.
C15_CancelOnce ==
    /\ \A c \in Chans :
         /\ chans[c].qsent <= chans[c].qtried
         /\ chans[c].qtried = IF reg[c].how \in Cancelled THEN 1 ELSE 0
    /\ pc = "close_iter" =>
         \A id \in DOMAIN atStart :
            reg[atStart[id]].how
               = IF id \in todo THEN "registered" ELSE "closed"

\* C15 witness: the Loop has Stopped; one registration was evicted by a
\* fan-out and one was outstanding at the shutdown, and each has had one
\* signal.
C15_Witness ==
    /\ pc = "stopped"
    /\ \E c1, c2 \in Made :
         /\ reg[c1].how \in {"evicted", "evicted dry"} /\ chans[c1].qsent = 1
         /\ reg[c2].how = "closed" /\ chans[c2].qsent = 1

\* C16: atomicity of the registry operations.  With the Loop at its select
\* and every call returned, there is no entry in Subscriptions while the
\* flag is 0.
C16_NoSubscriberUnflagged ==
    (Idle /\ pc = "select") =>
        ~(DOMAIN Subscriptions # {} /\ subscribers = 0)

\* C17: no blocking on subscriber I/O.  While the Loop holds the mutex in
\* send or close it can take its next step whatever the channels can take:
\* each entry can be visited whether its PayloadChan is full or not and
\* whether its QuitChan takes the signal or not, and after the last the
\* function returns.  Subscribe and Unsubscribe touch no channel.
C17_NoBlockingOnSubscriberIO ==
    /\ []((pc = "send_iter" /\ ~panicked) =>
            /\ mutex = "loop"
            /\ \A id \in todo :
                  IF CanSend(Subscriptions[id])
                  THEN ENABLED SendVisit(id, FALSE)
                  ELSE \A ready \in BOOLEAN : ENABLED SendVisit(id, ready)
            /\ todo = {} => ENABLED SendDone)
    /\ []((pc = "close_iter" /\ ~panicked) =>
            /\ mutex = "loop"
            /\ \A id \in todo, ready \in BOOLEAN : ENABLED CloseVisit(id, ready)
            /\ todo = {} => ENABLED CloseDone)
    /\ [][(\/ \E p \in Procs, id \in Ids : SubscribeCAS(p, id)
           \/ \E p \in Procs : SubscribeInsert(p)
           \/ \E id \in Ids : Unsubscribe(id))
             => \A c \in Made : chans'[c] = chans[c]]_vars

\* C17 witness: the Loop holds the mutex in send; an entry it has visited
\* could take neither the payload nor the signal and is gone, and the next
\* entry's PayloadChan is full.
C17_Witness ==
    /\ pc = "send_iter" /\ mutex = "loop"
    /\ \E id \in todo : ~CanSend(Subscriptions[id])
    /\ \E id \in DOMAIN atStart \ DOMAIN Subscriptions :
         chans[atStart[id]].qtried = 1 /\ chans[atStart[id]].qsent = 0

C19_ExitClosesAndUnsubscribes ==
    /\ [](/\ pc = "stopped" => upstream = "unsubscribed"
          /\ pc \in Running \cup {"close_lock", "close_iter"}
                => upstream = "active")
    /\ [][/\ (pc # "stopped" /\ pc' = "stopped")
                => /\ pc = "close_iter" /\ todo = {}
                   /\ DOMAIN Subscriptions = {}
                   /\ upstream = "active" /\ upstream' = "unsubscribed"
          /\ upstream' # upstream
                => (pc' = "stopped" /\ pc # "stopped") \/ (pc = "new")
          /\ pc = "stopped" => pc' = "stopped"]_vars

\* C19 witness: the Loop has exited on the upstream error, after close()
\* removed a subscriber.
C19_Witness ==
    /\ pc = "stopped" /\ errCh = "taken" /\ ~quitClosed
    /\ upstream = "unsubscribed"
    /\ \E c \in Made : reg[c].how = "closed"

\* C20: silent replacement.  The Subscribe that overwrites an entry puts
\* nothing on the channels of the entry it replaces, and nothing is put on
\* them afterwards, payload or signal.
C20_SilentReplacement ==
    [][\A c \in Chans :
          /\ reg'[c].how = "overwritten" => chans'[c] = chans[c]
          /\ reg[c].how = "overwritten" => reg'[c].how = "overwritten"]_vars

\* C20 witness: an entry was overwritten before a fan-out and the shutdown;
\* its replacement got the payload and the signal of the shutdown, and the
\* replaced channels nothing.
C20_Witness ==
    /\ pc = "stopped"
    /\ \E c1, c2 \in Made :
         /\ reg[c1].how = "overwritten"
         /\ chans[c1].sent = <<>> /\ chans[c1].qtried = 0
         /\ reg[c2].how = "closed" /\ reg[c2].from = reg[c1].from
         /\ chans[c2].sent # <<>> /\ chans[c2].qsent = 1
====
